---- MODULE Spec2Model ----
(***************************************************************************)
(* Yilian usage reports: the monthly script (scripts/process_yilian.py)    *)
(* and the annual script (scripts/yilian_monthly_webhook.py).              *)
(*                                                                         *)
(* A datetime is a record [year, month, day, hour, minute, second]; NaT is *)
(* the pandas "not a time" marker; NA is the pandas missing value.         *)
(* A header is a sequence of character tokens, so that stripping and       *)
(* whitespace removal act on it as the code does.                          *)
(***************************************************************************)
EXTENDS Integers, Sequences, FiniteSets, TLC

VARIABLES
    pc,          \* position of the running function
    script,      \* "monthly" (process_yilian.py) or "annual" (yilian_monthly_webhook.py)
    tree,        \* the files below the repository root, in listing order
    posix,       \* whether the platform compares file names case-sensitively
    csv_paths,   \* the paths the source locator returned (those not yet read)
    disk,        \* the contents of the files read so far, in reading order
    now,         \* datetime.now() read by process_yilian.main
    df_all,      \* process_yilian: the concatenated raw table
    summary,     \* process_yilian: the table returned by build_monthly_summary
    month,       \* process_yilian: the scope label returned by build_monthly_summary
    year_arg,    \* yilian_monthly_webhook: args.year
    frames,      \* yilian_monthly_webhook: the unified frames collected by main
    merged,      \* yilian_monthly_webhook: merged, deduplicated, timestamps present
    scoped,      \* yilian_monthly_webhook: the table filter_scope returned
    scope_str,   \* yilian_monthly_webhook: the label filter_scope returned
    by_proj,     \* yilian_monthly_webhook: the three aggregate tables
    by_proj_branch,
    by_month,
    written,     \* the artifacts written so far: [file, scope, table]
    faults,      \* the optional side effects that failed so far
    raised,      \* the call whose exception left main ("" when none did)
    status       \* "running", "ok" (exit 0), "exit1", "exit2", "exception" (exit 1)

locVars == <<tree, posix, csv_paths, disk>>
monthlyVars == <<now, df_all, summary, month>>
annualVars == <<year_arg, frames, merged, scoped, scope_str, by_proj, by_proj_branch, by_month>>
ioVars == <<written, faults, raised, status>>
vars == <<pc, script, locVars, monthlyVars, annualVars, ioVars>>

\* pandas NaT: no calendar date has year 0, so it equals no parsed timestamp
NaT == [year |-> 0, month |-> 0, day |-> 0, hour |-> 0, minute |-> 0, second |-> 0]
\* pandas NA / NaN in an identifier column
NA == "NA"
\* a table variable not yet assigned
NoTable == [cols |-> <<>>, rows |-> <<>>]

(***************************************************************************)
(* Calendar arithmetic of datetime / timedelta.                            *)
(***************************************************************************)
IsLeap(y) == (y % 4 = 0) /\ ((y % 100 # 0) \/ (y % 400 = 0))

DaysInMonth(y, m) ==
    IF m = 2 THEN (IF IsLeap(y) THEN 29 ELSE 28)
    ELSE IF m \in {4, 6, 9, 11} THEN 30 ELSE 31

DaysBeforeYear(y) ==
    ((y - 1) * 365) + ((y - 1) \div 4) - ((y - 1) \div 100) + ((y - 1) \div 400)

RECURSIVE DaysBeforeMonth(_, _)
DaysBeforeMonth(y, m) ==
    IF m = 1 THEN 0 ELSE DaysBeforeMonth(y, m - 1) + DaysInMonth(y, m - 1)

ToOrdinal(y, m, d) == DaysBeforeYear(y) + DaysBeforeMonth(y, m) + d

Dt(y, m, d, h, mi, s) ==
    [year |-> y, month |-> m, day |-> d, hour |-> h, minute |-> mi, second |-> s]

\* datetime.fromordinal: the date whose ordinal is n
FromOrdinal(n) ==
    LET y == CHOOSE yy \in (n \div 366)..((n \div 365) + 1) :
                 DaysBeforeYear(yy) < n /\ n <= DaysBeforeYear(yy + 1)
        r == n - DaysBeforeYear(y)
        m == CHOOSE mm \in 1..12 :
                 DaysBeforeMonth(y, mm) < r /\ r <= DaysBeforeMonth(y, mm) + DaysInMonth(y, mm)
    IN  [year |-> y, month |-> m, day |-> r - DaysBeforeMonth(y, m)]

SecondOfDay(t) == (t.hour * 3600) + (t.minute * 60) + t.second

\* t - timedelta(seconds = n), 0 <= n <= 86400
DtMinusSeconds(t, n) ==
    LET sod  == SecondOfDay(t) - n
        days == ToOrdinal(t.year, t.month, t.day) + (IF sod < 0 THEN -1 ELSE 0)
        rest == IF sod < 0 THEN sod + 86400 ELSE sod
        date == FromOrdinal(days)
    IN  Dt(date.year, date.month, date.day,
           rest \div 3600, (rest % 3600) \div 60, rest % 60)

\* t.replace(day=1, hour=0, minute=0, second=0, microsecond=0)
ReplaceDay1Midnight(t) == Dt(t.year, t.month, 1, 0, 0, 0)

\* comparison of two datetimes (field by field, most significant first)
DtLt(a, b) ==
    LET ka == <<a.year, a.month, a.day, a.hour, a.minute, a.second>>
        kb == <<b.year, b.month, b.day, b.hour, b.minute, b.second>>
    IN  \E i \in 1..6 : ka[i] < kb[i] /\ \A j \in 1..(i - 1) : ka[j] = kb[j]
DtLe(a, b) == a = b \/ DtLt(a, b)

(***************************************************************************)
(* Text: a string the code formats or sorts is a sequence of characters.   *)
(***************************************************************************)
DigitChars == <<"0", "1", "2", "3", "4", "5", "6", "7", "8", "9">>
Digit(n) == DigitChars[n + 1]
Pad2(n) == <<Digit(n \div 10), Digit(n % 10)>>
Pad4(n) == <<Digit(n \div 1000), Digit((n \div 100) % 10), Digit((n \div 10) % 10), Digit(n % 10)>>

\* code point of the characters that occur in labels
Ord(c) ==
    CASE c = "-" -> 45
      [] c = "N" -> 78
      [] c = "T" -> 84
      [] c = "a" -> 97
      [] OTHER   -> 48 + (CHOOSE d \in 0..9 : DigitChars[d + 1] = c)

\* a < b for two strings (Python / pandas object order)
StrLt(a, b) ==
    \/ \E i \in 1..Len(a) : /\ i <= Len(b)
                            /\ Ord(a[i]) < Ord(b[i])
                            /\ \A j \in 1..(i - 1) : a[j] = b[j]
    \/ Len(a) < Len(b) /\ \A j \in 1..Len(a) : a[j] = b[j]

\* strftime("%Y-%m")
StrfYm(t) == Pad4(t.year) \o <<"-">> \o Pad2(t.month)

\* order of the project and branch identifiers of the model's inputs
IdRank(x) == CASE x = "b1" -> 1 [] x = "b2" -> 2 [] x = "p1" -> 3 [] x = "p2" -> 4 [] OTHER -> 9
IdLt(a, b) == IdRank(a) < IdRank(b)

\* stable sort of a sequence by a strict order
StableSort(s, Lt(_, _)) ==
    LET n == Len(s)
        pos(i) == 1 + Cardinality({j \in 1..n : Lt(s[j], s[i]) \/ (~Lt(s[i], s[j]) /\ j < i)})
    IN  [k \in 1..n |-> s[CHOOSE i \in 1..n : pos(i) = k]]

\* the elements of a sequence
Range(s) == {s[i] : i \in 1..Len(s)}

\* strftime("%Y-%m-%d %H:%M:%S")
StrfFull(t) ==
    Pad4(t.year) \o <<"-">> \o Pad2(t.month) \o <<"-">> \o Pad2(t.day) \o <<" ">>
        \o Pad2(t.hour) \o <<":">> \o Pad2(t.minute) \o <<":">> \o Pad2(t.second)

\* the latest of a non-empty set of datetimes
DtMax(S) == CHOOSE t \in S : \A u \in S : DtLe(u, t)
DtMin(S) == CHOOSE t \in S : \A u \in S : DtLe(t, u)

\* a set as a sequence, in some order
RECURSIVE SetToSeq(_)
SetToSeq(S) ==
    IF S = {} THEN <<>>
    ELSE LET x == CHOOSE y \in S : TRUE IN <<x>> \o SetToSeq(S \ {x})

\* pd.to_datetime(cell, errors="coerce"): the automatic parser, per cell
AutoParse(cell) == IF cell.fmt = "auto" THEN cell.ts ELSE NaT

(***************************************************************************)
(* Frames.  A frame is [cols, rows]: cols the column labels in order       *)
(* (a label may occur twice), rows the rows, each a sequence of cells      *)
(* aligned with cols.  A header is a sequence of character tokens: one     *)
(* token per CJK character or ASCII word, and LF, CR, SP, TAB for the      *)
(* whitespace characters.                                                  *)
(***************************************************************************)
Whitespace == {"LF", "CR", "SP", "TAB"}

\* the canonical column labels
PROJECT == <<"xiang", "mu", "ming">>
BRANCH == <<"ji", "yu", "na", "tiao", "manifest", "fen", "zhi">>
TIME == <<"shen", "qing", "shi", "jian">>
BRANCH_LF == BRANCH \o <<"LF">>

\* positions of the columns of df labelled name
ColIdx(df, name) == {i \in 1..Len(df.cols) : df.cols[i] = name}
HasCol(df, name) == ColIdx(df, name) # {}
UniqueCols(df) == \A i, j \in 1..Len(df.cols) : df.cols[i] = df.cols[j] => i = j

RECURSIVE Flatten(_)
Flatten(ss) == IF ss = <<>> THEN <<>> ELSE Head(ss) \o Flatten(Tail(ss))

\* df[names]: every label selects all the columns that carry it, in label order
SelectCols(df, names) ==
    LET idx == Flatten([k \in 1..Len(names) |->
                   SelectSeq([i \in 1..Len(df.cols) |-> i],
                             LAMBDA i : df.cols[i] = names[k])])
    IN  [cols |-> [k \in 1..Len(idx) |-> df.cols[idx[k]]],
         rows |-> [r \in 1..Len(df.rows) |-> [k \in 1..Len(idx) |-> df.rows[r][idx[k]]]]]

\* df[name] = value(row) for a label that is absent (appended) or present once
SetCol(df, name, value(_)) ==
    IF HasCol(df, name)
    THEN [df EXCEPT !.rows = [r \in 1..Len(df.rows) |->
                                 [k \in 1..Len(df.cols) |->
                                     IF df.cols[k] = name THEN value(r) ELSE df.rows[r][k]]]]
    ELSE [cols |-> Append(df.cols, name),
          rows |-> [r \in 1..Len(df.rows) |-> Append(df.rows[r], value(r))]]

\* the cell of row r under the (single) column labelled name
At(df, r, name) == df.rows[r][CHOOSE i \in ColIdx(df, name) : TRUE]

(***************************************************************************)
(* scripts/yilian_monthly_webhook.py                                       *)
(***************************************************************************)
\* a path is a sequence of segments below the repository root, the last one the file
\* name; a segment is a sequence of tokens, "." always a token of its own
EXCLUDE_DIRS ==
    {<<"results">>, <<".", "github">>, <<".", "git">>, <<".", "venv">>, <<"venv">>,
     <<"__pycache__">>, <<".", "idea">>, <<".", "vscode">>}

FileName(p) == p[Len(p)]
DirSegments(p) == SubSeq(p, 1, Len(p) - 1)
EndsWithCsv(name) == Len(name) >= 2 /\ SubSeq(name, Len(name) - 1, Len(name)) = <<".", "csv">>
\* str.lower() on the tokens file names are written with
LowerTok(t) == CASE t = "CSV" -> "csv" [] t = "Csv" -> "csv" [] OTHER -> t
Lower(name) == [i \in 1..Len(name) |-> LowerTok(name[i])]
StartsWithDot(seg) == seg # <<>> /\ seg[1] = "."

\* repo_root.rglob("*.csv"): the pattern is matched as the platform compares file
\* names, case-sensitively on POSIX and case-insensitively on Windows
Rglob(listing, case_sensitive) ==
    SelectSeq(listing, LAMBDA p : IF case_sensitive THEN EndsWithCsv(FileName(p))
                               ELSE EndsWithCsv(Lower(FileName(p))))

\* collect_csvs(repo_root)
collect_csvs(listing, case_sensitive) ==
    SelectSeq(Rglob(listing, case_sensitive),
              LAMBDA p : /\ Range(p) \cap EXCLUDE_DIRS = {}
                         /\ ~\E seg \in Range(p) : StartsWithDot(seg))

\* CANON_COLS, in dictionary order
CanonOrder == <<PROJECT, BRANCH, TIME>>
CANON_COLS(std) ==
    CASE std = PROJECT ->
             {<<"xiang", "mu", "ming">>, <<"xiangT", "mu", "ming">>, <<"xiang", "mu">>,
              <<"xiang", "mu", "ming", "cheng">>, <<"xiangT", "mu", "ming", "chengT">>}
      [] std = BRANCH ->
             {<<"ji", "yu", "na", "tiao", "manifest", "fen", "zhi">>,
              <<"ji", "yu", "na", "tiao", "manifest", "LF", "fen", "zhi">>,
              <<"manifest", "fen", "zhi">>, <<"fen", "zhi">>, <<"suo", "yong", "fen", "zhi">>}
      [] std = TIME ->
             {<<"shen", "qing", "shi", "jian">>, <<"shen", "qing", "LF", "shi", "jian">>,
              <<"shen", "qingT", "shiT", "jianT">>, <<"shi", "jian">>, <<"shi", "jian", "chuo">>}

DATE_FORMATS_HINT ==
    <<"%Y-%m-%d", "%Y/%m/%d", "%Y.%m.%d", "%Y-%m-%d %H:%M:%S", "%Y/%m/%d %H:%M:%S",
      "%Y{nian}%m{yue}%d{ri}", "%Y{nian}%m{yue}%d{ri} %H:%M:%S">>

\* str(c).replace("\n", "").replace("\r", ""); re.sub(r"\s+", "", nc)
CleanHeaderSpacesOnly(c) == SelectSeq(c, LAMBDA ch : ch \notin {"SP", "TAB"})
CleanHeader(c) == SelectSeq(c, LAMBDA ch : ch \notin Whitespace)

\* the mapping normalize_headers builds: for std in CANON_COLS, for col in columns,
\* mapping[col] = std when col is one of std's aliases (a later std overwrites)
HeaderMapping(cols) ==
    LET RECURSIVE Build(_, _)
        Build(k, m) ==
            IF k > Len(CanonOrder) THEN m
            ELSE Build(k + 1,
                       [c \in DOMAIN m \cup {x \in Range(cols) : x \in CANON_COLS(CanonOrder[k])} |->
                           IF c \in CANON_COLS(CanonOrder[k]) THEN CanonOrder[k] ELSE m[c]])
    IN  Build(1, <<>>)

\* normalize_headers(df)
normalize_headers(df) ==
    LET new_cols == [i \in 1..Len(df.cols) |-> CleanHeader(df.cols[i])]
        mapping  == HeaderMapping(new_cols)
    IN  [df EXCEPT !.cols = [i \in 1..Len(new_cols) |->
                                IF new_cols[i] \in DOMAIN mapping
                                THEN mapping[new_cols[i]] ELSE new_cols[i]]]

\* read_csv_any(path): the frame of a file some encoding of ENCODINGS_TO_TRY reads,
\* headers normalized; None (ok = FALSE) when every encoding fails
ENCODINGS_TO_TRY == <<"utf-8-sig", "utf-8", "gbk", "gb2312">>
ReadCsv(file) ==
    [cols |-> [i \in 1..Len(file.columns) |-> file.columns[i].name],
     rows |-> [r \in 1..Len(file.data) |->
                  [i \in 1..Len(file.columns) |-> file.data[r][file.columns[i].field]]]]
read_csv_any(file) ==
    IF \E k \in 1..Len(ENCODINGS_TO_TRY) : ENCODINGS_TO_TRY[k] \in file.decodes
    THEN [ok |-> TRUE, df |-> normalize_headers(ReadCsv(file))]
    ELSE [ok |-> FALSE, df |-> NoTable]

\* re.search(r"shijian|date|riqi|time", c, re.I)
DateWords == {"date", "Date", "DATE", "time", "Time", "datetime", "update"}
DateLike(c) ==
    \/ \E i \in 1..Len(c) : c[i] \in DateWords
    \/ \E i \in 1..(Len(c) - 1) : <<c[i], c[i + 1]>> \in {<<"shi", "jian">>, <<"ri", "qi">>}

\* pick_date_series(df): the label whose column(s) df[label] returns, or None
pick_date_series(df) ==
    LET date_like == SelectSeq(df.cols, DateLike)
    IN  IF HasCol(df, TIME) THEN [found |-> TRUE, name |-> TIME]
        ELSE IF date_like # <<>> THEN [found |-> TRUE, name |-> date_like[1]]
        ELSE [found |-> FALSE, name |-> <<>>]

\* pd.to_datetime(raw, format=fmt, errors="coerce") on one cell: date-only formats
\* give midnight
DateOnly(fmt) == fmt \in {"%Y-%m-%d", "%Y/%m/%d", "%Y.%m.%d", "%Y{nian}%m{yue}%d{ri}"}
Strptime(cell, fmt) ==
    IF cell.fmt # fmt THEN NaT
    ELSE IF DateOnly(fmt) THEN Dt(cell.ts.year, cell.ts.month, cell.ts.day, 0, 0, 0)
    ELSE cell.ts

\* to_datetime_safe(series), per cell: the automatic parser, then the first format of
\* DATE_FORMATS_HINT that parses the cell (parsed.fillna(parsed2)), else NaT
FallbackParse(cell) ==
    LET RECURSIVE Try(_, _)
        Try(k, parsed) ==
            IF k > Len(DATE_FORMATS_HINT) THEN parsed
            ELSE Try(k + 1, IF parsed = NaT THEN Strptime(cell, DATE_FORMATS_HINT[k]) ELSE parsed)
    IN  Try(1, NaT)
to_datetime_safe_epoch(cell) ==
    LET s == AutoParse(cell)
        f == FallbackParse(cell)
    IN  IF s # NaT THEN s ELSE IF f # NaT THEN f ELSE Dt(1970, 1, 1, 0, 0, 0)
to_datetime_safe(cell) ==
    LET s == AutoParse(cell)
    IN  IF s = NaT THEN FallbackParse(cell) ELSE s

\* unify_dataframe(df): [ok, df]; ok = FALSE when pd.to_datetime is handed the
\* DataFrame that df[label] is for a label carried by two columns (ValueError)
Canonical == {PROJECT, BRANCH, TIME}
unify_dataframe(df) ==
    LET RECURSIVE Fill(_, _)
        Fill(d, needs) ==
            IF needs = <<>> THEN d
            ELSE Fill(IF HasCol(d, Head(needs)) THEN d
                      ELSE SetCol(d, Head(needs), LAMBDA r : NA), Tail(needs))
        df1  == Fill(df, <<PROJECT, BRANCH>>)
        pick == pick_date_series(df1)
        src  == CHOOSE i \in ColIdx(df1, pick.name) : TRUE
        df2  == IF ~pick.found THEN SetCol(df1, TIME, LAMBDA r : NaT)
                ELSE SetCol(df1, TIME, LAMBDA r : to_datetime_safe(df1.rows[r][src]))
        keep == SelectSeq(df2.cols, LAMBDA c : c \in Canonical)
    IN  IF pick.found /\ Cardinality(ColIdx(df1, pick.name)) > 1
        THEN [ok |-> FALSE, df |-> NoTable]
        ELSE [ok |-> TRUE, df |-> SelectCols(df2, keep)]

\* deduplicate(df): drop_duplicates(subset = the three canonical labels), first kept
DedupKey(df, r) ==
    LET idx == SelectSeq([i \in 1..Len(df.cols) |-> i], LAMBDA i : df.cols[i] \in Canonical)
    IN  [k \in 1..Len(idx) |-> df.rows[r][idx[k]]]
deduplicate_one(df) ==
    LET dup == {r \in 1..Len(df.rows) : \E q \in 1..(r - 1) : DedupKey(df, q) = DedupKey(df, r)}
        last == CHOOSE r \in dup : \A q \in dup : q <= r
    IN  IF dup = {} THEN df
        ELSE [df EXCEPT !.rows = SubSeq(df.rows, 1, last - 1) \o SubSeq(df.rows, last + 1, Len(df.rows))]
deduplicate(df) ==
    LET first == SelectSeq([r \in 1..Len(df.rows) |-> r],
                     LAMBDA r : \A q \in 1..(r - 1) : DedupKey(df, q) # DedupKey(df, r))
    IN  [df EXCEPT !.rows = [k \in 1..Len(first) |-> df.rows[first[k]]]]

\* pd.concat(frames, ignore_index=True): [ok, df]; frames whose labels differ are
\* aligned by label, which raises when a frame carries a label twice
concat(fs) ==
    LET same   == \A i \in 1..Len(fs) : fs[i].cols = fs[1].cols
        labels == LET RECURSIVE Union(_, _)
                      Union(k, acc) ==
                          IF k > Len(fs) THEN acc
                          ELSE Union(k + 1, acc \o SelectSeq(fs[k].cols,
                                                       LAMBDA c : c \notin Range(acc)))
                  IN  Union(1, <<>>)
        align(f) == [r \in 1..Len(f.rows) |->
                        [k \in 1..Len(labels) |->
                            IF HasCol(f, labels[k]) THEN At(f, r, labels[k]) ELSE NA]]
    IN  IF same
        THEN [ok |-> TRUE,
              df |-> [cols |-> fs[1].cols,
                      rows |-> Flatten([i \in 1..Len(fs) |-> fs[i].rows])]]
        ELSE IF \E i \in 1..Len(fs) : ~UniqueCols(fs[i])
        THEN [ok |-> FALSE, df |-> NoTable]
        ELSE [ok |-> TRUE,
              df |-> [cols |-> labels,
                      rows |-> Flatten([i \in 1..Len(fs) |-> align(fs[i])])]]

\* str.upper() on the characters a scope argument is written with
Upper(c) == CASE c = "a" -> "A" [] c = "l" -> "L" [] OTHER -> c
IsDigit(c) == \E d \in 0..9 : DigitChars[d + 1] = c
RECURSIVE ParseInt(_)
ParseInt(cs) ==
    IF cs = <<>> THEN 0
    ELSE (10 * ParseInt(SubSeq(cs, 1, Len(cs) - 1)))
         + (CHOOSE d \in 0..9 : DigitChars[d + 1] = cs[Len(cs)])
RECURSIVE IntToStr(_)
IntToStr(n) == IF n < 10 THEN <<Digit(n)>> ELSE Append(IntToStr(n \div 10), Digit(n % 10))

\* filter_scope(df, scope): <<filtered df, scope_str>>
filter_scope(df, scope) ==
    LET all  == <<"a", "l", "l">>
        year == ParseInt(scope)
    IN  IF [i \in 1..Len(scope) |-> Upper(scope[i])] = <<"A", "L", "L">> THEN <<df, all>>
        ELSE IF scope = <<>> \/ \E i \in 1..Len(scope) : ~IsDigit(scope[i]) THEN <<df, all>>
        ELSE <<[df EXCEPT !.rows = SelectSeq(df.rows,
                     LAMBDA row : LET t == row[CHOOSE i \in ColIdx(df, TIME) : TRUE]
                                  IN  t # NaT /\ t.year = year)],
               IntToStr(year)>>

\* the labels of the aggregate tables
COUNT_P == <<"shen", "qing", "ci", "shu">>
FIRST_P == <<"shou", "ci", "shen", "qing", "shi", "jian">>
LAST_P == <<"zui", "jin", "shen", "qing", "shi", "jian">>
NBRANCH_P == <<"fen", "zhi", "zhong", "lei", "shu">>
TOP_P == <<"zui", "chang", "yong", "fen", "zhi">>
COUNT_B == <<"ci", "shu">>
FIRST_B == <<"shou", "ci", "shi", "jian">>
LAST_B == <<"zui", "jin", "shi", "jian">>
MONTH == <<"yue", "fen">>
ENTRIES == <<"tiao", "mu", "shu">>

\* str(period("M")) of a timestamp: "YYYY-MM", and "NaT" for NaT
PeriodStr(t) == IF t = NaT THEN <<"N", "a", "T">> ELSE StrfYm(t)

\* sort_values([count, last], ascending=[False, False]); NaT sorts last
CountLastDesc(a, b) ==
    \/ a.count > b.count
    \/ a.count = b.count /\ a.last # NaT /\ (b.last = NaT \/ DtLt(b.last, a.last))

\* the rows of df as records
RecordsDropna(df) ==
    LET rows == SelectSeq(df.rows,
                    LAMBDA row : \A i \in ColIdx(df, PROJECT) \cup ColIdx(df, BRANCH) : row[i] # NA)
    IN  [r \in 1..Len(rows) |->
            [project   |-> rows[r][CHOOSE i \in ColIdx(df, PROJECT) : TRUE],
             branch    |-> rows[r][CHOOSE i \in ColIdx(df, BRANCH) : TRUE],
             timestamp |-> rows[r][CHOOSE i \in ColIdx(df, TIME) : TRUE]]]
Records(df) ==
    [r \in 1..Len(df.rows) |->
        [project |-> At(df, r, PROJECT), branch |-> At(df, r, BRANCH),
         timestamp |-> At(df, r, TIME)]]

\* group_summaries(df): [ok, by_proj, by_proj_branch, by_month]; groupby raises on a
\* label carried by two columns
group_summaries(df) ==
    LET recs     == Records(df)
        times(g) == {r.timestamp : r \in Range(g)} \ {NaT}
        stats(g) == [count |-> Len(SelectSeq(g, LAMBDA r : r.timestamp # NaT)),
                     first |-> IF times(g) = {} THEN NaT ELSE DtMin(times(g)),
                     last  |-> IF times(g) = {} THEN NaT ELSE DtMax(times(g))]
        \* value_counts(dropna=True).idxmax(): the most frequent branch, the first
        \* encountered among equals
        top(g) ==
            LET bs   == SelectSeq([i \in 1..Len(g) |-> g[i].branch], LAMBDA b : b # NA)
                n(b) == Len(SelectSeq(bs, LAMBDA x : x = b))
                best == SelectSeq(bs, LAMBDA b : \A x \in Range(bs) : n(x) <= n(b))
            IN  IF bs = <<>> THEN NA ELSE best[1]
        \* groupby("project", dropna=False)
        projs    == StableSort(SetToSeq({r.project : r \in Range(recs)}), IdLt)
        projRow(p) ==
            LET g == SelectSeq(recs, LAMBDA r : r.project = p)
                s == stats(g)
            IN  [project |-> p, count |-> s.count, first |-> s.first, last |-> s.last,
                 nbranch |-> Cardinality({r.branch : r \in Range(g)} \ {NA}),
                 top |-> top(g)]
        t_proj   == [cols |-> <<PROJECT>> \o <<COUNT_P, FIRST_P, LAST_P, NBRANCH_P, TOP_P>>,
                     rows |-> StableSort([i \in 1..Len(projs) |-> projRow(projs[i])],
                                         CountLastDesc)]
        \* groupby(["project", "branch"], dropna=False)
        PbLt(a, b) == IdLt(a[1], b[1]) \/ (a[1] = b[1] /\ IdLt(a[2], b[2]))
        pbs      == StableSort(SetToSeq({<<r.project, r.branch>> : r \in Range(recs)}), PbLt)
        pbRow(k) ==
            LET g == SelectSeq(recs, LAMBDA r : <<r.project, r.branch>> = k)
                s == stats(g)
            IN  [project |-> k[1], branch |-> k[2],
                 count |-> s.count, first |-> s.first, last |-> s.last]
        t_pb     == [cols |-> <<PROJECT, BRANCH>> \o <<COUNT_B, FIRST_B, LAST_B>>,
                     rows |-> StableSort([i \in 1..Len(pbs) |-> pbRow(pbs[i])],
                                         CountLastDesc)]
        \* df.assign(month=...).groupby("month").size().rename(...).reset_index()
        \*   .sort_values("month")
        months   == StableSort(SetToSeq({PeriodStr(r.timestamp) : r \in Range(recs)}), StrLt)
        t_month  == [cols |-> <<MONTH>> \o <<ENTRIES>>,
                     rows |-> StableSort(
                                  [i \in 1..Len(months) |->
                                      [month |-> months[i],
                                       size  |-> Len(SelectSeq(recs,
                                                    LAMBDA r : PeriodStr(r.timestamp) = months[i]))]],
                                  LAMBDA a, b : StrLt(a.month, b.month))]
    IN  IF ~UniqueCols(df)
        THEN [ok |-> FALSE, by_proj |-> NoTable, by_proj_branch |-> NoTable, by_month |-> NoTable]
        ELSE [ok |-> TRUE, by_proj |-> t_proj, by_proj_branch |-> t_pb, by_month |-> t_month]

\* main: merged[merged[TIME].notna()]
notna_keep_all(df) == df
notna_rows(df) ==
    [df EXCEPT !.rows = SelectSeq(df.rows,
                            LAMBDA row : row[CHOOSE i \in ColIdx(df, TIME) : TRUE] # NaT)]

\* main: the tables written when the scoped table is empty
empty_aggregates_short ==
    [by_proj        |-> [cols |-> <<PROJECT, COUNT_P, LAST_P, NBRANCH_P, TOP_P>>, rows |-> <<>>],
     by_proj_branch |-> [cols |-> <<PROJECT, BRANCH, COUNT_B, FIRST_B, LAST_B>>, rows |-> <<>>],
     by_month       |-> [cols |-> <<MONTH, ENTRIES>>, rows |-> <<>>]]
empty_aggregates ==
    [by_proj        |-> [cols |-> <<PROJECT, COUNT_P, FIRST_P, LAST_P, NBRANCH_P, TOP_P>>,
                         rows |-> <<>>],
     by_proj_branch |-> [cols |-> <<PROJECT, BRANCH, COUNT_B, FIRST_B, LAST_B>>, rows |-> <<>>],
     by_month       |-> [cols |-> <<MONTH, ENTRIES>>, rows |-> <<>>]]

(***************************************************************************)
(* scripts/process_yilian.py                                               *)
(***************************************************************************)
\* prev_month_range(now_local)
prev_month_range_day(now_local) ==
    LET this_month_start == ReplaceDay1Midnight(now_local)
        prev_month_end   == DtMinusSeconds(this_month_start, 86400)
        prev_month_start == ReplaceDay1Midnight(prev_month_end)
    IN  <<prev_month_start, prev_month_end>>

prev_month_range(now_local) ==
    LET this_month_start == ReplaceDay1Midnight(now_local)
        prev_month_end   == DtMinusSeconds(this_month_start, 1)
        prev_month_start == ReplaceDay1Midnight(prev_month_end)
    IN  <<prev_month_start, prev_month_end>>

\* the name of the repository's root directory (Path(root).name of the walk's top)
RepoName == <<"repo">>

\* find_csv_files(repo_dir, skip_dir): os.walk visits every directory; the files of a
\* directory named skip_dir are passed over, its subdirectories are still walked
find_csv_files(listing, skip_dir) ==
    SelectSeq(listing,
              LAMBDA p : /\ (IF Len(p) = 1 THEN RepoName ELSE p[Len(p) - 1]) # skip_dir
                         /\ EndsWithCsv(Lower(FileName(p))))

FANGWEN_CISHU == <<"fang", "wen", "ci", "shu">>
ZUIJIN_FANGWEN == <<"zui", "jin", "yi", "ci", "fang", "wen", "shi", "jian">>

\* str(c).strip()
RECURSIVE LStrip(_)
LStrip(c) == IF c # <<>> /\ Head(c) \in Whitespace THEN LStrip(Tail(c)) ELSE c
RECURSIVE RStrip(_)
RStrip(c) ==
    IF c # <<>> /\ c[Len(c)] \in Whitespace THEN RStrip(SubSeq(c, 1, Len(c) - 1)) ELSE c
Strip(c) == RStrip(LStrip(c))

\* load_and_concat(csv_paths), one file: the frames it appends (none or one)
MONTHLY_ENCODINGS == <<"gbk", "utf-8", "utf-8-sig">>
LoadOne(file) ==
    LET raw  == ReadCsv(file)
        df   == [raw EXCEPT !.cols = [i \in 1..Len(raw.cols) |-> Strip(raw.cols[i])]]
        part == SelectCols(df, <<PROJECT, BRANCH_LF, TIME>>)
    IN  IF ~\E k \in 1..Len(MONTHLY_ENCODINGS) : MONTHLY_ENCODINGS[k] \in file.decodes
        THEN <<>>
        ELSE IF {PROJECT, BRANCH, TIME} \subseteq Range(df.cols)
        THEN <<SelectCols(df, <<PROJECT, BRANCH, TIME>>)>>
        ELSE IF {PROJECT, BRANCH_LF, TIME} \subseteq Range(df.cols)
        THEN <<[part EXCEPT !.cols = [i \in 1..Len(part.cols) |->
                                         IF part.cols[i] = BRANCH_LF THEN BRANCH
                                         ELSE part.cols[i]]]>>
        ELSE <<>>

\* load_and_concat(csv_paths): [ok, df]; pd.DataFrame() when no frame was kept
load_and_concat(files) ==
    LET parts == Flatten([i \in 1..Len(files) |-> LoadOne(files[i])])
    IN  IF parts = <<>> THEN [ok |-> TRUE, df |-> NoTable] ELSE concat(parts)

\* the rows of df_all the mask of build_monthly_summary keeps
MonthlyMask(recs, prev_start, prev_end) ==
    SelectSeq(recs, LAMBDA r : /\ r.timestamp # NaT
                                /\ DtLe(prev_start, r.timestamp)
                                /\ DtLe(r.timestamp, prev_end))

\* recent_df.groupby([project, branch]).agg(count, max).reset_index(): NA keys are
\* dropped (dropna defaults to True), groups come out sorted by key
MonthlyGroups(recent_df) ==
    LET keyed == SelectSeq(recent_df, LAMBDA r : r.project # NA /\ r.branch # NA)
        keys  == {<<r.project, r.branch>> : r \in Range(keyed)}
        KeyLt(a, b) == IdLt(a[1], b[1]) \/ (a[1] = b[1] /\ IdLt(a[2], b[2]))
        row(k) ==
            LET grp == SelectSeq(keyed, LAMBDA r : <<r.project, r.branch>> = k)
            IN  [project |-> k[1], branch |-> k[2], count |-> Len(grp),
                 last |-> DtMax({r.timestamp : r \in Range(grp)})]
        sorted == StableSort(SetToSeq(keys), KeyLt)
    IN  [i \in 1..Len(sorted) |-> row(sorted[i])]

\* build_monthly_summary(df_all, now_local): [ok, out, month]; ok = FALSE when
\* pd.to_datetime or groupby is handed a label carried by two columns
build_monthly_summary(df, now_local) ==
    LET range     == prev_month_range(now_local)
        month_str == StrfYm(range[1])
        empty_out == [cols |-> <<PROJECT, BRANCH, FANGWEN_CISHU, ZUIJIN_FANGWEN>>,
                      rows |-> <<>>]
        recs      == Records(df)
        parsed    == [i \in 1..Len(recs) |-> [recs[i] EXCEPT !.timestamp = AutoParse(@)]]
        recent_df == MonthlyMask(parsed, range[1], range[2])
        \* sort_values([project, count], ascending=[True, False])
        ByProjCount(a, b) ==
            IdLt(a.project, b.project) \/ (a.project = b.project /\ a.count > b.count)
        grouped   == StableSort(MonthlyGroups(recent_df), ByProjCount)
        out       == [cols |-> <<PROJECT, BRANCH>> \o <<FANGWEN_CISHU, ZUIJIN_FANGWEN>>,
                      rows |-> [i \in 1..Len(grouped) |->
                                   [grouped[i] EXCEPT !.last = StrfFull(@)]]]
    IN  IF Len(df.rows) = 0 \/ Len(df.cols) = 0
        THEN [ok |-> TRUE, out |-> empty_out, month |-> month_str]
        ELSE IF Cardinality(ColIdx(df, TIME)) > 1
        THEN [ok |-> FALSE, out |-> NoTable, month |-> month_str]
        ELSE IF Len(recent_df) = 0
        THEN [ok |-> TRUE, out |-> empty_out, month |-> month_str]
        ELSE IF ~UniqueCols(df)
        THEN [ok |-> FALSE, out |-> NoTable, month |-> month_str]
        ELSE [ok |-> TRUE, out |-> out, month |-> month_str]

\* the variables before main has assigned them
InitMonthlyVars == now = NaT /\ df_all = NoTable /\ summary = NoTable /\ month = <<>>
InitAnnualVars ==
    /\ year_arg = <<>> /\ frames = <<>> /\ merged = NoTable /\ scoped = NoTable
    /\ scope_str = <<>>
    /\ by_proj = NoTable /\ by_proj_branch = NoTable /\ by_month = NoTable
InitIoVars == written = {} /\ faults = {} /\ raised = "" /\ status = "running"

(***************************************************************************)
(* SpecDate: build_monthly_summary applied to one-row tables, for every    *)
(* reference instant of NowSet.                                            *)
(***************************************************************************)
NumYears == 2
Years == (2024..(2023 + NumYears)) \cup {2100}
Clock == {<<0, 0, 0>>, <<10, 0, 0>>, <<23, 59, 59>>}
NowSet ==
    {Dt(y, m, d, c[1], c[2], c[3]) :
        y \in Years, m \in 1..12, d \in {1, 15, 28}, c \in Clock}
SampleTimes ==
    {t \in {Dt(y, m, d, c[1], c[2], c[3]) :
               y \in Years \cup {2023, 2099}, m \in {1, 2, 3, 12},
               d \in {1, 28, 29, 31}, c \in {<<0, 0, 0>>, <<23, 59, 59>>}} :
        t.day <= DaysInMonth(t.year, t.month)}

Cell(t) == [fmt |-> "auto", ts |-> t]
Garbage == [fmt |-> "none", ts |-> NaT]

InitDate ==
    /\ pc = "date_start"
    /\ script = "monthly"
    /\ now \in NowSet
    /\ \E t \in SampleTimes \cup {NaT} :
           df_all = [cols |-> <<PROJECT, BRANCH, TIME>>,
                     rows |-> <<<<"p1", "b1", IF t = NaT THEN Garbage ELSE Cell(t)>>>>]
    /\ summary = NoTable
    /\ month = <<>>
    /\ tree = <<>> /\ posix = TRUE /\ csv_paths = <<>> /\ disk = <<>>
    /\ InitAnnualVars
    /\ InitIoVars

DateBuild ==
    /\ pc = "date_start"
    /\ LET res == build_monthly_summary(df_all, now)
       IN  summary' = res.out /\ month' = res.month
    /\ pc' = "date_done"
    /\ UNCHANGED <<script, now, df_all, locVars, annualVars, ioVars>>

NextDate == DateBuild
SpecDate == InitDate /\ [][NextDate]_vars

(***************************************************************************)
(* SpecLocate: the two source locators applied to directory trees of up    *)
(* to MaxPaths files.                                                      *)
(***************************************************************************)
MaxPaths == 2
PathSet ==
    {<<<<"a", ".", "csv">>>>,
     <<<<"b", ".", "CSV">>>>,
     <<<<".", "hidden", ".", "csv">>>>,
     <<<<"notes", ".", "txt">>>>,
     <<<<"data">>, <<"c", ".", "csv">>>>,
     <<<<"results">>, <<"r", ".", "csv">>>>,
     <<<<"results">>, <<"sub">>, <<"s", ".", "csv">>>>,
     <<<<".", "github">>, <<"w", ".", "csv">>>>,
     <<<<"data">>, <<"venv">>, <<"v", ".", "Csv">>>>}

\* the listings of at most n distinct paths of S
RECURSIVE Listings(_, _)
Listings(S, n) ==
    IF n = 0 THEN {<<>>}
    ELSE LET shorter == Listings(S, n - 1)
         IN  shorter \cup {Append(l, p) : l \in {x \in shorter : Len(x) = n - 1},
                                          p \in S} 

DistinctListing(l) == \A i, j \in 1..Len(l) : l[i] = l[j] => i = j

InitLocate ==
    /\ pc = "locate_start"
    /\ script \in {"monthly", "annual"}
    /\ tree \in {l \in Listings(PathSet, MaxPaths) : DistinctListing(l)}
    /\ posix \in BOOLEAN
    /\ csv_paths = <<>> /\ disk = <<>>
    /\ InitMonthlyVars
    /\ InitAnnualVars
    /\ InitIoVars

\* yilian_monthly_webhook.main: csv_paths = collect_csvs(repo_root)
LocateAnnual ==
    /\ pc = "locate_start" /\ script = "annual"
    /\ csv_paths' = collect_csvs(tree, posix)
    /\ pc' = "located"
    /\ UNCHANGED <<script, tree, posix, disk, monthlyVars, annualVars, ioVars>>

\* process_yilian.main: csv_files = find_csv_files(str(root), skip_dir="results")
LocateMonthly ==
    /\ pc = "locate_start" /\ script = "monthly"
    /\ csv_paths' = find_csv_files(tree, <<"results">>)
    /\ pc' = "located"
    /\ UNCHANGED <<script, tree, posix, disk, monthlyVars, annualVars, ioVars>>

NextLocate == LocateAnnual \/ LocateMonthly
SpecLocate == InitLocate /\ [][NextLocate]_vars

(***************************************************************************)
(* Spec: one run of either script over a repository of at most MaxFiles    *)
(* source files holding at most MaxRows rows together.                     *)
(***************************************************************************)
MaxFiles == 2
MaxRows == 2

\* the source files of the repository, and an artifact of an earlier run
SourcePath(k) == <<<<"data">>, <<"f", Digit(k), ".", "csv">>>>
OldArtifact == <<<<"results">>, <<"all_annual_summary", ".", "csv">>>>
RunTrees == {[k \in 1..n |-> SourcePath(k)] \o <<OldArtifact>> : n \in 0..MaxFiles}

\* the rows a file may hold: an ISO timestamp, one in the previous year, the first
\* one written in a fallback format, and a cell no format parses
RowSet ==
    {[project |-> "p1", branch |-> "b1", timestamp |-> Cell(Dt(2025, 2, 10, 0, 0, 0)), other |-> "x"],
     [project |-> "p2", branch |-> "b1", timestamp |-> Cell(Dt(2024, 12, 31, 23, 59, 59)), other |-> "x"],
     [project |-> "p1", branch |-> "b1",
      timestamp |-> [fmt |-> "%Y/%m/%d", ts |-> Dt(2025, 2, 10, 0, 0, 0)], other |-> "x"],
     [project |-> "p1", branch |-> "b2", timestamp |-> Garbage, other |-> "x"]}

\* the header rows a file may have: each column is a raw header and the field of the
\* row written under it
Col(name, field) == [name |-> name, field |-> field]
Layouts ==
    {<<Col(PROJECT, "project"), Col(BRANCH, "branch"), Col(TIME, "timestamp")>>,
     <<Col(PROJECT, "project"), Col(BRANCH_LF, "branch"), Col(TIME, "timestamp")>>,
     <<Col(PROJECT, "project"), Col(TIME, "timestamp")>>,
     <<Col(PROJECT, "project"), Col(<<"xiang", "mu">>, "project"),
       Col(BRANCH, "branch"), Col(TIME, "timestamp")>>,
     <<Col(PROJECT, "project"), Col(BRANCH, "branch"), Col(TIME, "timestamp"),
       Col(<<"shi", "jian">>, "timestamp")>>}

Unreadable == [decodes |-> {}, columns |-> <<>>, data |-> <<>>]
FileSet(n) ==
    {Unreadable} \cup
    {[decodes |-> {"utf-8"}, columns |-> l, data |-> d] : l \in Layouts, d \in Listings(RowSet, n)}

RowsOn(files) ==
    LET RECURSIVE Sum(_)
        Sum(k) == IF k = 0 THEN 0 ELSE Sum(k - 1) + Len(files[k].data)
    IN  Sum(Len(files))

ScopeArgs ==
    {<<"A", "L", "L">>, <<"a", "l", "l">>, <<"2", "0", "2", "5">>, <<"2", "0", "2", "3">>,
     <<"2", "0", "x", "5">>}

Artifact(file, scope, table) == [file |-> file, scope |-> scope, table |-> table]

Init ==
    /\ pc = "main"
    /\ script \in {"monthly", "annual"}
    /\ tree \in RunTrees
    /\ posix = TRUE
    /\ csv_paths = <<>> /\ disk = <<>>
    /\ InitMonthlyVars
    /\ InitAnnualVars
    /\ InitIoVars

\* an uncaught exception leaves main: traceback, exit status 1
Raise(what) == pc' = "exited" /\ status' = "exception" /\ raised' = what

(* ---------------- yilian_monthly_webhook.main ---------------- *)
\* csv_paths = collect_csvs(repo_root); sys.exit(1) when there is none
A_Collect ==
    /\ pc = "main" /\ script = "annual"
    /\ csv_paths' = collect_csvs(tree, posix)
    /\ IF csv_paths' = <<>>
       THEN pc' = "exited" /\ status' = "exit1"
       ELSE pc' = "a_read" /\ UNCHANGED status
    /\ UNCHANGED <<script, tree, posix, disk, monthlyVars, annualVars, written, faults, raised>>

\* one turn of the loop over csv_paths: read_csv_any, skip, or unify and append
A_Read ==
    /\ pc = "a_read" /\ csv_paths # <<>>
    /\ \E file \in FileSet(MaxRows - RowsOn(disk)) :
           LET r == read_csv_any(file)
               u == unify_dataframe(r.df)
           IN  /\ disk' = Append(disk, file)
               /\ csv_paths' = Tail(csv_paths)
               /\ IF ~r.ok \/ Len(r.df.rows) = 0
                  THEN UNCHANGED <<pc, frames, status, raised>>
                  ELSE IF ~u.ok
                  THEN Raise("unify_dataframe") /\ UNCHANGED frames
                  ELSE frames' = Append(frames, u.df) /\ UNCHANGED <<pc, status, raised>>
    /\ UNCHANGED <<script, tree, posix, monthlyVars, year_arg, merged, scoped, scope_str,
                   by_proj, by_proj_branch, by_month, written, faults>>

\* after the loop: sys.exit(2) without frames; else concat, deduplicate, drop the rows
\* without a timestamp, filter_scope, and group_summaries or the empty tables
A_Merge ==
    /\ pc = "a_read" /\ csv_paths = <<>>
    /\ \E arg \in ScopeArgs :
           LET cat     == concat(frames)
               dd      == deduplicate(cat.df)
               kept    == notna_rows(dd)
               sc      == filter_scope(kept, arg)
               groups  == group_summaries(sc[1])
           IN  IF frames = <<>>
               THEN /\ pc' = "exited" /\ status' = "exit2"
                    /\ UNCHANGED <<annualVars, raised>>
               ELSE IF ~cat.ok
               THEN Raise("concat") /\ UNCHANGED annualVars
               ELSE /\ year_arg' = arg
                    /\ merged' = kept
                    /\ scoped' = sc[1]
                    /\ scope_str' = sc[2]
                    /\ UNCHANGED frames
                    /\ IF Len(sc[1].rows) = 0
                       THEN /\ by_proj' = empty_aggregates.by_proj
                            /\ by_proj_branch' = empty_aggregates.by_proj_branch
                            /\ by_month' = empty_aggregates.by_month
                            /\ pc' = "a_save" /\ UNCHANGED <<status, raised>>
                       ELSE IF ~groups.ok
                       THEN /\ Raise("group_summaries")
                            /\ UNCHANGED <<by_proj, by_proj_branch, by_month>>
                       ELSE /\ by_proj' = groups.by_proj
                            /\ by_proj_branch' = groups.by_proj_branch
                            /\ by_month' = groups.by_month
                            /\ pc' = "a_save" /\ UNCHANGED <<status, raised>>
    /\ UNCHANGED <<script, locVars, monthlyVars, written, faults>>

\* save_outputs: the three CSV files, then the workbook (pd.ExcelWriter, not guarded)
A_Save ==
    /\ pc = "a_save"
    /\ LET csvs == {Artifact("annual_summary.csv", scope_str, by_proj),
                    Artifact("annual_by_branch.csv", scope_str, by_proj_branch),
                    Artifact("annual_monthly.csv", scope_str, by_month)}
       IN  \/ /\ written' = written \cup csvs \cup {Artifact("annual_report.xlsx", scope_str, NoTable)}
              /\ pc' = "a_feishu"
              /\ UNCHANGED <<faults, raised, status>>
           \/ /\ written' = written \cup csvs
              /\ faults' = faults \cup {"xlsx"}
              /\ Raise("save_outputs")
    /\ UNCHANGED <<script, locVars, monthlyVars, annualVars>>

\* send_feishu_card: skipped without FEISHU_WEBHOOK_URL; a failed request is caught
A_Feishu ==
    /\ pc = "a_feishu"
    /\ \E outcome \in {"sent", "no_url", "webhook_failed"} :
           faults' = IF outcome = "sent" THEN faults ELSE faults \cup {outcome}
    /\ pc' = "a_git"
    /\ UNCHANGED <<script, locVars, monthlyVars, annualVars, written, raised, status>>

\* git_commit_and_push: CalledProcessError is caught, a missing git executable
\* (FileNotFoundError) is not; then print("[Done] OK.")
A_Git ==
    /\ pc = "a_git"
    /\ \E outcome \in {"pushed", "git_failed", "git_missing"} :
           /\ faults' = IF outcome = "pushed" THEN faults ELSE faults \cup {outcome}
           /\ IF outcome = "git_missing"
              THEN Raise("git_commit_and_push")
              ELSE pc' = "exited" /\ status' = "ok" /\ UNCHANGED raised
    /\ UNCHANGED <<script, locVars, monthlyVars, annualVars, written>>

(* ---------------- process_yilian.main ---------------- *)
\* WEBHOOK = os.environ.get("FEISHU_WEBHOOK_URL"); assert WEBHOOK; ensure_dirs
M_Start ==
    /\ pc = "main" /\ script = "monthly"
    /\ \/ pc' = "m_find" /\ UNCHANGED <<faults, raised, status>>
       \/ faults' = faults \cup {"no_url"} /\ Raise("assert WEBHOOK")
    /\ UNCHANGED <<script, locVars, monthlyVars, annualVars, written>>

\* csv_files = find_csv_files(str(root), skip_dir="results")
M_Find ==
    /\ pc = "m_find"
    /\ csv_paths' = find_csv_files(tree, <<"results">>)
    /\ pc' = "m_load"
    /\ UNCHANGED <<script, tree, posix, disk, monthlyVars, annualVars, ioVars>>

\* the contents of n files holding at most rows rows together
RECURSIVE Disks(_, _)
Disks(n, rows) ==
    IF n = 0 THEN {<<>>}
    ELSE UNION {{<<f>> \o rest : rest \in Disks(n - 1, rows - Len(f.data))} : f \in FileSet(rows)}

\* df_all = load_and_concat(csv_files)
M_Load ==
    /\ pc = "m_load"
    /\ \E files \in Disks(Len(csv_paths), MaxRows) :
           LET res == load_and_concat(files)
           IN  /\ disk' = files
               /\ csv_paths' = <<>>
               /\ IF res.ok
                  THEN df_all' = res.df /\ pc' = "m_build" /\ UNCHANGED <<raised, status>>
                  ELSE Raise("load_and_concat") /\ UNCHANGED df_all
    /\ UNCHANGED <<script, tree, posix, now, summary, month, annualVars, written, faults>>

\* the instants datetime.now() returns in the runs of the model
RunNows == {Dt(2025, 3, 15, 10, 0, 0), Dt(2025, 1, 2, 0, 0, 0)}

\* summary, month = build_monthly_summary(df_all, datetime.now())
M_Build ==
    /\ pc = "m_build"
    /\ \E t \in RunNows :
           LET res == build_monthly_summary(df_all, t)
           IN  /\ now' = t
               /\ IF res.ok
                  THEN /\ summary' = res.out /\ month' = res.month
                       /\ pc' = "m_save" /\ UNCHANGED <<raised, status>>
                  ELSE Raise("build_monthly_summary") /\ UNCHANGED <<summary, month>>
    /\ UNCHANGED <<script, locVars, df_all, annualVars, written, faults>>

\* save_outputs: the CSV file, then the workbook inside try/except
M_Save ==
    /\ pc = "m_save"
    /\ \/ /\ written' = written \cup {Artifact("summary.csv", month, summary),
                                      Artifact("summary.xlsx", month, NoTable)}
          /\ UNCHANGED faults
       \/ /\ written' = written \cup {Artifact("summary.csv", month, summary)}
          /\ faults' = faults \cup {"xlsx"}
    /\ pc' = "m_git"
    /\ UNCHANGED <<script, locVars, monthlyVars, annualVars, raised, status>>

\* git_commit_and_push_monthly: the copy monthly/<month>.csv, git config (check=False),
\* git add (check=True), git commit and git push (check=False)
M_Git ==
    /\ pc = "m_git"
    /\ \E outcome \in {"pushed", "git_missing", "git_add_failed", "git_failed"} :
           /\ faults' = IF outcome = "pushed" THEN faults ELSE faults \cup {outcome}
           /\ written' = written \cup {Artifact("monthly.csv", month, summary)}
           /\ IF outcome \in {"git_missing", "git_add_failed"}
              THEN Raise("git_commit_and_push_monthly")
              ELSE pc' = "m_webhook" /\ UNCHANGED <<raised, status>>
    /\ UNCHANGED <<script, locVars, monthlyVars, annualVars>>

\* send_webhook_card: requests.post, r.raise_for_status(); then print("Webhook OK:")
M_Webhook ==
    /\ pc = "m_webhook"
    /\ \E outcome \in {"sent", "webhook_failed"} :
           /\ faults' = IF outcome = "sent" THEN faults ELSE faults \cup {outcome}
           /\ IF outcome = "sent"
              THEN pc' = "exited" /\ status' = "ok" /\ UNCHANGED raised
              ELSE Raise("send_webhook_card")
    /\ UNCHANGED <<script, locVars, monthlyVars, annualVars, written>>

Next ==
    \/ A_Collect \/ A_Read \/ A_Merge \/ A_Save \/ A_Feishu \/ A_Git
    \/ M_Start \/ M_Find \/ M_Load \/ M_Build \/ M_Save \/ M_Git \/ M_Webhook
Spec == Init /\ [][Next]_vars

(***************************************************************************)
(* SpecDedup: deduplicate applied, and applied again, to every table of    *)
(* at most MaxDedupRows rows with the three canonical columns; a project   *)
(* or branch may be missing and a timestamp may be NaT.                    *)
(***************************************************************************)
MaxDedupRows == 3
UnifiedRows ==
    {<<p, b, t>> : p \in {"p1", NA}, b \in {"b1", NA}, t \in {Dt(2025, 2, 10, 0, 0, 0), NaT}}
UnifiedTables(rowset, n) ==
    {[cols |-> <<PROJECT, BRANCH, TIME>>, rows |-> rows] : rows \in Listings(rowset, n)}

InitDedup ==
    /\ pc = "dedup"
    /\ script = "annual"
    /\ \E T \in UnifiedTables(UnifiedRows, MaxDedupRows) : frames = <<T>>
    /\ year_arg = <<>> /\ merged = NoTable /\ scoped = NoTable /\ scope_str = <<>>
    /\ by_proj = NoTable /\ by_proj_branch = NoTable /\ by_month = NoTable
    /\ tree = <<>> /\ posix = TRUE /\ csv_paths = <<>> /\ disk = <<>>
    /\ InitMonthlyVars
    /\ InitIoVars

\* frames holds T, deduplicate(T), deduplicate(deduplicate(T))
DedupStep ==
    /\ pc = "dedup" /\ Len(frames) < 3
    /\ frames' = Append(frames, deduplicate(frames[Len(frames)]))
    /\ UNCHANGED <<pc, script, locVars, monthlyVars, year_arg, merged, scoped, scope_str,
                   by_proj, by_proj_branch, by_month, ioVars>>

NextDedup == DedupStep
SpecDedup == InitDedup /\ [][NextDedup]_vars

(***************************************************************************)
(* SpecGroup: group_summaries applied to every non-empty table of at most  *)
(* MaxGroupRows rows whose timestamps are all present; a project or branch *)
(* may be missing.                                                         *)
(***************************************************************************)
MaxGroupRows == 3
ScopedRows ==
    {<<p, b, t>> : p \in {"p1", NA}, b \in {"b1", "b2", NA},
                   t \in {Dt(2025, 2, 10, 0, 0, 0), Dt(2024, 12, 31, 23, 59, 59)}}

InitGroup ==
    /\ pc = "group"
    /\ script = "annual"
    /\ scoped \in {T \in UnifiedTables(ScopedRows, MaxGroupRows) : T.rows # <<>>}
    /\ year_arg = <<>> /\ frames = <<>> /\ merged = NoTable /\ scope_str = <<>>
    /\ by_proj = NoTable /\ by_proj_branch = NoTable /\ by_month = NoTable
    /\ tree = <<>> /\ posix = TRUE /\ csv_paths = <<>> /\ disk = <<>>
    /\ InitMonthlyVars
    /\ InitIoVars

\* by_proj, by_pb, by_month = group_summaries(scoped)
GroupStep ==
    /\ pc = "group"
    /\ LET g == group_summaries(scoped)
       IN  /\ by_proj' = g.by_proj
           /\ by_proj_branch' = g.by_proj_branch
           /\ by_month' = g.by_month
    /\ pc' = "grouped"
    /\ UNCHANGED <<script, locVars, monthlyVars, year_arg, frames, merged, scoped, scope_str,
                   ioVars>>

NextGroup == GroupStep
SpecGroup == InitGroup /\ [][NextGroup]_vars

(* ------------------------------ Claims ------------------------------ *)

\* the value a sequence of digit characters denotes
RECURSIVE DigitsValue(_)
DigitsValue(cs) ==
    IF cs = <<>> THEN 0
    ELSE (10 * DigitsValue(SubSeq(cs, 1, Len(cs) - 1)))
         + (CHOOSE d \in 0..9 : DigitChars[d + 1] = cs[Len(cs)])

\* the previous calendar month of t, from the calendar alone
PrevYear(t) == IF t.month = 1 THEN t.year - 1 ELSE t.year
PrevMonth(t) == IF t.month = 1 THEN 12 ELSE t.month - 1
ExpectedWindow(t) ==
    <<Dt(PrevYear(t), PrevMonth(t), 1, 0, 0, 0),
      Dt(PrevYear(t), PrevMonth(t), DaysInMonth(PrevYear(t), PrevMonth(t)), 23, 59, 59)>>

\* C3: for every reference instant now, prev_month_range(now) is [first day of the
\* previous calendar month 00:00:00, its last day 23:59:59] (across the year boundary,
\* February in leap and non-leap years), the label is that month's YYYY-MM, and
\* build_monthly_summary counts a row iff start <= t <= end; for now = 2025-03-15
\* 10:00:00 a row at 2025-02-28 23:59:59 is counted, one at 2025-03-01 00:00:00 is not.
C3_PrevMonthWindow ==
    pc = "date_done" =>
        LET w     == ExpectedWindow(now)
            c     == df_all.rows[1][3]
            inWin == c.fmt = "auto" /\ DtLe(w[1], c.ts) /\ DtLe(c.ts, w[2])
        IN  /\ prev_month_range(now) = w
            /\ Len(month) = 7 /\ month[5] = "-"
            /\ DigitsValue(SubSeq(month, 1, 4)) = PrevYear(now)
            /\ DigitsValue(SubSeq(month, 6, 7)) = PrevMonth(now)
            /\ inWin => (Len(summary.rows) = 1 /\ summary.rows[1].count = 1)
            /\ ~inWin => summary.rows = <<>>
            /\ (now = Dt(2025, 3, 15, 10, 0, 0) /\ c = Cell(Dt(2025, 3, 1, 0, 0, 0)))
                   => summary.rows = <<>>

C3_Witness ==
    /\ pc = "date_done"
    /\ now = Dt(2025, 3, 15, 10, 0, 0)
    /\ df_all.rows[1][3] = Cell(Dt(2025, 2, 28, 23, 59, 59))
    /\ Len(summary.rows) = 1
    /\ summary.rows[1].count = 1
    /\ summary.rows[1].last = StrfFull(Dt(2025, 2, 28, 23, 59, 59))


\* the files the Source Locator is specified to return: CSV extension compared
\* case-insensitively, no directory segment excluded or hidden
ExcludedFor(s) == IF s = "annual" THEN EXCLUDE_DIRS ELSE {<<"results">>}
ShouldLocate(p, s) ==
    /\ EndsWithCsv(Lower(FileName(p)))
    /\ \A k \in 1..(Len(p) - 1) : p[k] \notin ExcludedFor(s) /\ ~StartsWithDot(p[k])

\* C7: for every directory tree, the Source Locator returns exactly the files whose
\* name ends in the CSV extension compared case-insensitively and whose path has no
\* directory segment that is an excluded name or starts with "."; no file under
\* results/ or under a subdirectory of results/ is ever returned.
C7_LocatorExact ==
    pc = "located" =>
        /\ Range(csv_paths) = {p \in Range(tree) : ShouldLocate(p, script)}
        /\ \A p \in Range(csv_paths) : p[1] # <<"results">>


\* the aggregate artifacts of a run, each with zero rows and its documented columns
EmptyAggregatesWritten ==
    IF script = "annual"
    THEN \E sc \in {<<"a", "l", "l">>} \cup {scope_str} :
             {Artifact("annual_summary.csv", sc, empty_aggregates.by_proj),
              Artifact("annual_by_branch.csv", sc, empty_aggregates.by_proj_branch),
              Artifact("annual_monthly.csv", sc, empty_aggregates.by_month)} \subseteq written
    ELSE \E a \in written :
             /\ a.file = "summary.csv" /\ a.table.rows = <<>>
             /\ a.table.cols = <<PROJECT, BRANCH, FANGWEN_CISHU, ZUIJIN_FANGWEN>>

\* a run that found no CSV file, or no file with a usable frame
NoSourceData ==
    IF script = "annual" THEN status \in {"exit1", "exit2"}
    ELSE status = "ok" /\ Len(df_all.rows) = 0

\* C1: when no CSV file is found at all, or no file yields a usable frame, the run
\* ends only after it has written the well-formed empty aggregate artifacts: no run
\* reaches process exit without them.
C1_EmptyArtifactsBeforeExit ==
    (pc = "exited" /\ NoSourceData) => EmptyAggregatesWritten

\* the primary CSV artifacts of a run
PrimaryCsvWritten ==
    IF script = "annual"
    THEN {"annual_summary.csv", "annual_by_branch.csv", "annual_monthly.csv"}
             \subseteq {a.file : a \in written}
    ELSE "summary.csv" \in {a.file : a \in written}

\* C2: a failure of an optional side effect (spreadsheet export, git add/commit/push,
\* webhook delivery, a missing webhook URL) never aborts the run: main runs to its end
\* after the primary CSV artifacts were written, and the exit status is zero.
C2_SideEffectsNeverAbort ==
    (pc = "exited" /\ faults # {}) => (status = "ok" /\ PrimaryCsvWritten)


\* the files of disk that gave a frame in the annual script, in reading order
Usable(file) == file.decodes # {} /\ file.data # <<>>
UsableFiles == SelectSeq(disk, Usable)
RawNames(file) == {file.columns[i].name : i \in 1..Len(file.columns)}
\* the files of disk whose header row the monthly script recognises
MonthlyAccepts(file) ==
    /\ file.decodes # {}
    /\ {PROJECT, TIME} \subseteq RawNames(file)
    /\ BRANCH \in RawNames(file) \/ BRANCH_LF \in RawNames(file)

\* C4: in every pipeline run (monthly and annual) the merged table that reaches the
\* scope filter and the aggregation holds no two rows with the same (project, branch,
\* timestamp), so an event present in two files or twice in one counts once.
C4_NoDuplicateTriples ==
    /\ (script = "annual" /\ merged # NoTable) =>
           \A i, j \in 1..Len(merged.rows) :
               (/\ At(merged, i, PROJECT) = At(merged, j, PROJECT)
                /\ At(merged, i, BRANCH) = At(merged, j, BRANCH)
                /\ At(merged, i, TIME) = At(merged, j, TIME)) => i = j
    /\ (script = "monthly" /\ summary # NoTable /\ df_all # NoTable) =>
           \A i, j \in 1..Len(df_all.rows) :
               (/\ At(df_all, i, PROJECT) = At(df_all, j, PROJECT)
                /\ At(df_all, i, BRANCH) = At(df_all, j, BRANCH)
                /\ AutoParse(At(df_all, i, TIME)) = AutoParse(At(df_all, j, TIME))) => i = j

\* C6: unify_dataframe returns exactly the three canonical columns, each once, and the
\* rows of its input in the same order and number, also when project or branch is
\* absent, when no date-like column exists and when two raw headers resolved to the
\* same canonical name.
C6_UnifyThreeColumns ==
    script = "annual" =>
        /\ raised # "unify_dataframe"
        /\ \A i \in 1..Len(frames) :
               /\ Len(frames[i].cols) = 3
               /\ Range(frames[i].cols) = Canonical
               /\ Len(frames[i].rows) = Len(UsableFiles[i].data)
               /\ \A r \in 1..Len(frames[i].rows) :
                      At(frames[i], r, PROJECT) = UsableFiles[i].data[r].project


\* a time cell the annual parser turns into a timestamp, and the timestamp it gives
Parseable(cell) == cell.fmt = "auto" \/ \E k \in 1..Len(DATE_FORMATS_HINT) : DATE_FORMATS_HINT[k] = cell.fmt
InScopeYear(t) == IF \A k \in 1..Len(year_arg) : IsDigit(year_arg[k]) THEN t.year = DigitsValue(year_arg) ELSE TRUE
BranchIn(file, row) == IF \E name \in RawNames(file) : CleanHeader(name) \in CANON_COLS(BRANCH) THEN row.branch ELSE NA
\* the events of the source files the annual aggregation has to count
SourceEvents ==
    {<<row.project, BranchIn(UsableFiles[i], row), row.timestamp.ts>> :
        <<i, row>> \in {<<i, row>> \in (1..Len(UsableFiles)) \X RowSet :
                            /\ \E r \in 1..Len(UsableFiles[i].data) : UsableFiles[i].data[r] = row
                            /\ Parseable(row.timestamp)
                            /\ InScopeYear(row.timestamp.ts)}}
\* the in-window rows of the monthly table, by row number
MonthlyEvents ==
    {r \in 1..Len(df_all.rows) :
        LET t == AutoParse(At(df_all, r, TIME))
            w == prev_month_range(now)
        IN  t # NaT /\ DtLe(w[1], t) /\ DtLe(t, w[2])}
RECURSIVE SumCount(_)
SumCount(rows) == IF rows = <<>> THEN 0 ELSE Head(rows).count + SumCount(Tail(rows))
RECURSIVE SumSize(_)
SumSize(rows) == IF rows = <<>> THEN 0 ELSE Head(rows).size + SumSize(Tail(rows))

\* C5: a time value that cannot be parsed becomes the missing timestamp (never an
\* error, never a default date), and rows without a timestamp are counted in no
\* aggregate: no counts, no first/last/most-recent value, no month bucket.
C5_UnparseableExcluded ==
    /\ script = "annual" =>
           \A i \in 1..Len(frames) : \A r \in 1..Len(frames[i].rows) :
               ~Parseable(UsableFiles[i].data[r].timestamp) => At(frames[i], r, TIME) = NaT
    /\ (script = "annual" /\ by_month # NoTable) =>
           /\ \A r \in 1..Len(merged.rows) : At(merged, r, TIME) # NaT
           /\ \A k \in 1..Len(by_month.rows) : by_month.rows[k].month # <<"N", "a", "T">>
           /\ \A k \in 1..Len(by_proj.rows) :
                  LET g == by_proj.rows[k]
                  IN  /\ g.first # NaT /\ g.last # NaT
                      /\ g.count = Cardinality({e \in SourceEvents : e[1] = g.project})
                      /\ g.first \in {e[3] : e \in SourceEvents}
                      /\ g.last \in {e[3] : e \in SourceEvents}
           /\ \A k \in 1..Len(by_proj_branch.rows) :
                  LET g == by_proj_branch.rows[k]
                  IN  /\ g.first # NaT /\ g.last # NaT
                      /\ g.count = Cardinality({e \in SourceEvents : e[1] = g.project /\ e[2] = g.branch})
           /\ SumCount(by_proj.rows) = Cardinality(SourceEvents)
           /\ SumSize(by_month.rows) = Cardinality(SourceEvents)
    /\ (script = "monthly" /\ summary # NoTable) =>
           /\ \A k \in 1..Len(summary.rows) :
                  LET g == summary.rows[k]
                  IN  g.count = Cardinality({r \in MonthlyEvents :
                                    At(df_all, r, PROJECT) = g.project /\ At(df_all, r, BRANCH) = g.branch})
           /\ SumCount(summary.rows) = Cardinality(MonthlyEvents)

\* a read file holds a row with an unparseable time next to a parseable one, and the
\* aggregates were computed from it
C5_Witness ==
    /\ script = "annual" /\ pc = "a_save" /\ Len(disk) = 1
    /\ \E r \in 1..Len(disk[1].data) : disk[1].data[r].timestamp = Garbage
    /\ \E r \in 1..Len(disk[1].data) : Parseable(disk[1].data[r].timestamp)
    /\ Len(by_proj.rows) = 1 /\ by_proj.rows[1].count = 1


\* the aggregates of a table with one event, for their columns
SampleEvent == Dt(2025, 2, 10, 0, 0, 0)
SampleGroups == group_summaries([cols |-> <<PROJECT, BRANCH, TIME>>, rows |-> <<<<"p1", "b1", SampleEvent>>>>])
SampleMonthly ==
    build_monthly_summary([cols |-> <<PROJECT, BRANCH, TIME>>, rows |-> <<<<"p1", "b1", Cell(SampleEvent)>>>>],
                          Dt(2025, 3, 15, 10, 0, 0))
SavedTable(file) == {a.table : a \in {w \in written : w.file = file}}

\* C8: when no row falls in the requested scope every aggregate is still produced, with
\* zero rows and the same column names in the same order as on non-empty input:
\* by-project, by-project-and-branch, by-month (annual) and the monthly summary.
C8_EmptyScopeFullColumns ==
    /\ Len(SampleGroups.by_proj.rows) = 1 /\ Len(SampleGroups.by_proj_branch.rows) = 1
    /\ Len(SampleGroups.by_month.rows) = 1 /\ Len(SampleMonthly.out.rows) = 1
    /\ (script = "annual" /\ pc \in {"a_save", "a_feishu", "a_git"} /\ Len(scoped.rows) = 0) =>
           /\ by_proj.rows = <<>> /\ by_proj.cols = SampleGroups.by_proj.cols
           /\ by_proj_branch.rows = <<>> /\ by_proj_branch.cols = SampleGroups.by_proj_branch.cols
           /\ by_month.rows = <<>> /\ by_month.cols = SampleGroups.by_month.cols
           /\ pc # "a_save" =>
                  /\ SavedTable("annual_summary.csv") = {by_proj}
                  /\ SavedTable("annual_by_branch.csv") = {by_proj_branch}
                  /\ SavedTable("annual_monthly.csv") = {by_month}
    /\ (script = "monthly" /\ pc \in {"m_save", "m_git", "m_webhook"} /\ MonthlyEvents = {}) =>
           /\ summary.rows = <<>> /\ summary.cols = SampleMonthly.out.cols
           /\ pc # "m_save" => SavedTable("summary.csv") = {summary}

\* source rows exist, none of them lies in the requested year, and the three empty
\* tables were written
C8_Witness ==
    /\ script = "annual" /\ pc = "a_feishu"
    /\ year_arg = <<"2", "0", "2", "3">>
    /\ Len(merged.rows) > 0 /\ Len(scoped.rows) = 0
    /\ SavedTable("annual_summary.csv") = {empty_aggregates.by_proj}

MonthOf(label) == <<DigitsValue(SubSeq(label, 1, 4)), DigitsValue(SubSeq(label, 6, 7))>>
IsMonthLabel(label) ==
    /\ Len(label) = 7 /\ label[5] = "-"
    /\ \A k \in {1, 2, 3, 4, 6, 7} : IsDigit(label[k])
    /\ MonthOf(label)[2] \in 1..12

\* C9: the by-month aggregate has exactly one row per distinct calendar month among the
\* scoped rows with a parseable timestamp, every row is labelled YYYY-MM (no bucket
\* for missing timestamps), and the rows ascend by month.
C9_ByMonthOnePerMonth ==
    (script = "annual" /\ pc \in {"a_save", "a_feishu", "a_git"}) =>
        LET times  == {At(scoped, r, TIME) : r \in 1..Len(scoped.rows)} \ {NaT}
            months == {<<t.year, t.month>> : t \in times}
            n      == Len(by_month.rows)
        IN  /\ n = Cardinality(months)
            /\ \A k \in 1..n : IsMonthLabel(by_month.rows[k].month)
            /\ {MonthOf(by_month.rows[k].month) : k \in 1..n} = months
            /\ \A k \in 1..n :
                   by_month.rows[k].size =
                       Cardinality({r \in 1..Len(scoped.rows) :
                           LET t == At(scoped, r, TIME)
                           IN  t # NaT /\ <<t.year, t.month>> = MonthOf(by_month.rows[k].month)})
            /\ \A j, k \in 1..n :
                   j < k => LET a == MonthOf(by_month.rows[j].month)
                                b == MonthOf(by_month.rows[k].month)
                            IN  a[1] < b[1] \/ (a[1] = b[1] /\ a[2] < b[2])

\* two months in scope, met in the input in descending order
C9_Witness ==
    /\ script = "annual" /\ pc = "a_save"
    /\ Len(scoped.rows) = 2 /\ Len(by_month.rows) = 2
    /\ DtLt(At(scoped, 2, TIME), At(scoped, 1, TIME))

HasLfBranch(file) == BRANCH_LF \in RawNames(file)
FieldsOf(file, field) == [r \in 1..Len(file.data) |-> file.data[r][field]]

\* C10: a file whose branch header ends in a newline and a file whose branch header
\* does not both resolve it to the canonical branch column, the rows of both are
\* ingested into the one merged table, and a cleaned header is an alias of at most one
\* canonical column.
C10_HeaderAliasResolution ==
    /\ \A a, b \in Canonical : a # b => CANON_COLS(a) \cap CANON_COLS(b) = {}
    /\ script = "annual" =>
           \A i \in 1..Len(frames) :
               HasLfBranch(UsableFiles[i]) =>
                   /\ frames[i].cols = <<PROJECT, BRANCH, TIME>>
                   /\ [r \in 1..Len(frames[i].rows) |-> At(frames[i], r, BRANCH)]
                          = FieldsOf(UsableFiles[i], "branch")
                   /\ [r \in 1..Len(frames[i].rows) |-> At(frames[i], r, PROJECT)]
                          = FieldsOf(UsableFiles[i], "project")
    /\ (script = "annual" /\ pc = "a_save" /\ \A i \in 1..Len(frames) : UniqueCols(frames[i])) =>
           {<<At(merged, r, PROJECT), At(merged, r, BRANCH), At(merged, r, TIME)>> :
                r \in 1..Len(merged.rows)}
             = {<<row.project, BranchIn(UsableFiles[i], row), row.timestamp.ts>> :
                  <<i, row>> \in {<<i, row>> \in (1..Len(UsableFiles)) \X RowSet :
                      /\ \E r \in 1..Len(UsableFiles[i].data) : UsableFiles[i].data[r] = row
                      /\ Parseable(row.timestamp)}}
    /\ (script = "monthly" /\ pc \in {"m_build", "m_save", "m_git", "m_webhook"}) =>
           LET accepted == SelectSeq(disk, MonthlyAccepts)
           IN  /\ Len(df_all.rows) = RowsOn(accepted)
               /\ accepted # <<>> => BRANCH \in Range(df_all.cols) /\ BRANCH_LF \notin Range(df_all.cols)
               /\ \A i \in 1..Len(accepted) : \A r \in 1..Len(accepted[i].data) :
                      \E q \in 1..Len(df_all.rows) :
                          /\ At(df_all, q, PROJECT) = accepted[i].data[r].project
                          /\ At(df_all, q, BRANCH) = accepted[i].data[r].branch
                          /\ At(df_all, q, TIME) = accepted[i].data[r].timestamp

\* one file with each spelling of the branch header, and the rows of both in the
\* merged table
C10_Witness ==
    /\ script = "annual" /\ pc = "a_save" /\ Len(disk) = 2
    /\ ~HasLfBranch(disk[1]) /\ BRANCH \in RawNames(disk[1]) /\ HasLfBranch(disk[2])
    /\ Len(disk[1].data) = 1 /\ Len(disk[2].data) = 1
    /\ Len(merged.rows) = 2
    /\ At(merged, 1, BRANCH) = disk[1].data[1].branch
    /\ At(merged, 2, BRANCH) = disk[2].data[1].branch


\* C11: deduplication is idempotent: for every table with the three canonical columns,
\* missing projects and branches and missing timestamps included,
\* deduplicate(deduplicate(T)) has the rows of deduplicate(T) in the same order.
C11_DeduplicateIdempotent ==
    /\ Len(frames) >= 2 =>
           /\ frames[2] = deduplicate(frames[1])
           /\ deduplicate(deduplicate(frames[1])) = deduplicate(frames[1])
           /\ \A i, j \in 1..Len(frames[2].rows) : frames[2].rows[i] = frames[2].rows[j] => i = j
           /\ Range(frames[2].rows) = Range(frames[1].rows)
    /\ Len(frames) = 3 =>
           /\ frames[3].rows = frames[2].rows
           /\ frames[3].cols = frames[2].cols

\* a table holding the same row three times, project and timestamp missing, was
\* deduplicated twice
C11_Witness ==
    /\ Len(frames) = 3
    /\ Len(frames[1].rows) = 3 /\ Len(frames[2].rows) = 1
    /\ frames[1].rows[1] = <<NA, "b1", NaT>>

\* C12: group_summaries conserves counts: on a scoped table whose rows all have a
\* timestamp, the by-project counts, the by-project-and-branch counts and the by-month
\* counts each sum to the number of rows; rows with a missing project or branch are
\* kept, in a group of their own.
C12_CountConservation ==
    (pc = "grouped" /\ \A r \in 1..Len(scoped.rows) : At(scoped, r, TIME) # NaT) =>
        /\ SumCount(by_proj.rows) = Len(scoped.rows)
        /\ SumCount(by_proj_branch.rows) = Len(scoped.rows)
        /\ SumSize(by_month.rows) = Len(scoped.rows)
        /\ \A r \in 1..Len(scoped.rows) :
               /\ \E k \in 1..Len(by_proj.rows) : by_proj.rows[k].project = At(scoped, r, PROJECT)
               /\ \E k \in 1..Len(by_proj_branch.rows) :
                      /\ by_proj_branch.rows[k].project = At(scoped, r, PROJECT)
                      /\ by_proj_branch.rows[k].branch = At(scoped, r, BRANCH)
        /\ \A k \in 1..Len(by_proj.rows) :
               by_proj.rows[k].count =
                   Cardinality({r \in 1..Len(scoped.rows) : At(scoped, r, PROJECT) = by_proj.rows[k].project})

\* rows without a project and without a branch were grouped next to complete ones
C12_Witness ==
    /\ pc = "grouped" /\ Len(scoped.rows) = 3
    /\ At(scoped, 1, PROJECT) = NA /\ At(scoped, 2, BRANCH) = NA /\ At(scoped, 3, PROJECT) = "p1"
    /\ \E k \in 1..Len(by_proj.rows) : by_proj.rows[k].project = NA /\ by_proj.rows[k].count >= 1
    /\ \E k \in 1..Len(by_proj_branch.rows) : by_proj_branch.rows[k].branch = NA

====
